---- MODULE Spec2Model ----
(***************************************************************************)
(* Model of src/src/utils/colorExtractor.ts.                               *)
(*                                                                         *)
(* Two specifications share the variables:                                 *)
(*   Spec     the K-means clustering engine (kMeansClustering and the      *)
(*            helpers it calls), one run from its inputs to its result;    *)
(*   SpecAcq  the acquisition layer (extractColorsFromFile,                *)
(*            extractColorsFromUrl) with several calls in flight on the    *)
(*            singleton extractor and its single canvas.                   *)
(*                                                                         *)
(* Sequences are 1-based here: cluster index i of the code is i+1 below.   *)
(***************************************************************************)
EXTENDS Integers, Sequences, FiniteSets, TLC

\* ------------------------------------------------------------------------
\* Bounds of the model
\* ------------------------------------------------------------------------
MaxLen == 3
MaxUniform == 7
MaxColorCount == 3
MaxIter == 2

\* ------------------------------------------------------------------------
\* Program constants
\* ------------------------------------------------------------------------
DefaultColorCount == 6
DefaultMaxIterations == 20
CONVERGE_THRESHOLD_SQ == 25

VARIABLES
    pixels,         \* number[][]: the opaque RGB triples handed to kMeansClustering
    colorCount,     \* options.colorCount, the requested k
    maxIterations,  \* options.maxIterations
    k,              \* the clamped k (line 140)
    centers,        \* let centers
    assignments,    \* result.assignments of the last Assignment step
    clusterSizes,   \* let clusterSizes
    iteration,      \* the loop variable of the for loop (line 146)
    trace,          \* history: per executed iteration, the old and new centers
    result,         \* the sequence kMeansClustering returns
    pc,             \* position in kMeansClustering
    calls,          \* acquisition layer: the state of each call in flight
    canvas          \* acquisition layer: the singleton extractor's canvas

kmVars == <<pixels, colorCount, maxIterations, k, centers, assignments,
            clusterSizes, iteration, trace, result, pc>>
acqVars == <<calls, canvas>>
vars == <<pixels, colorCount, maxIterations, k, centers, assignments,
          clusterSizes, iteration, trace, result, pc, calls, canvas>>

\* ------------------------------------------------------------------------
\* Inputs of the clustering engine
\* ------------------------------------------------------------------------
Black == <<0, 0, 0>>
White == <<255, 255, 255>>
Palette == {Black, <<8, 6, 0>>, <<10, 6, 0>>, White}

ScenarioPixels == <<Black, Black, White, White>>
MixedPixels == <<Black, <<10, 6, 0>>, White, White>>

SeqsUpTo(S, n) == UNION {[1..m -> S] : m \in 0..n}

UniformLists == {[i \in 1..n |-> v] : v \in Palette, n \in DefaultColorCount..MaxUniform}

PixelLists == SeqsUpTo(Palette, MaxLen) \cup {ScenarioPixels, MixedPixels} \cup UniformLists

ColorCounts == (1..MaxColorCount) \cup {DefaultColorCount}

IterationLimits == (1..MaxIter) \cup {DefaultMaxIterations}

\* ------------------------------------------------------------------------
\* Pure helpers
\* ------------------------------------------------------------------------
Min2(a, b) == IF a < b THEN a ELSE b

\* A plausible slip: k is not clamped
ClampKNone(requested, n) == requested

\* k = Math.min(k, pixels.length) (line 140)
ClampK(requested, n) == Min2(requested, n)

RECURSIVE SumSeq(_)
SumSeq(s) == IF s = <<>> THEN 0 ELSE s[1] + SumSeq(Tail(s))

colorDistanceSq(c1, c2) ==
    LET dr == c1[1] - c2[1]
        dg == c1[2] - c2[2]
        db == c1[3] - c2[3]
    IN  dr * dr + dg * dg + db * db

\* Math.min(...xs) over a non-empty sequence
MinOf(xs) == CHOOSE m \in {xs[i] : i \in DOMAIN xs} : \A i \in DOMAIN xs : m <= xs[i]

minDistancesToCenters(pxs, cs) ==
    [p \in DOMAIN pxs |-> MinOf([c \in DOMAIN cs |-> colorDistanceSq(pxs[p], cs[c])])]

\* The loop of weightedRandomPick (lines 61-66) in half units: r2 is twice the
\* value of r, so that the non-integer draws between two integers are covered.
\* Returns the index of the pixel picked.
RECURSIVE PickLoop(_, _, _)
PickLoop(distances, r2, i) ==
    IF i > Len(distances) THEN Len(distances)
    ELSE IF r2 - 2 * distances[i] <= 0 THEN i
         ELSE PickLoop(distances, r2 - 2 * distances[i], i + 1)

\* The values Math.random() * total can take, in half units: 0 and one value
\* inside every interval (prefix(i-1), prefix(i)] of positive width.  Every
\* real r in [0, total) gives the same pick as one of these.
PrefixSum(distances, i) == SumSeq(SubSeq(distances, 1, i))

WeightedDraws(distances) ==
    {0} \cup {2 * PrefixSum(distances, i) - 1 :
                 i \in {j \in DOMAIN distances : distances[j] > 0}}

\* weightedRandomPick: the pixels it can return for the distances given
WeightedPickIndices(distances) ==
    IF SumSeq(distances) = 0
    THEN DOMAIN distances
    ELSE {PickLoop(distances, r2, 1) : r2 \in WeightedDraws(distances)}

\* A plausible slip: <= instead of <, the last center at minimum distance wins
RECURSIVE ClosestFromLast(_, _, _, _, _, _)
ClosestFromLast(pixel, cs, kk, i, minDistSq, closest) ==
    IF i > kk THEN closest
    ELSE LET d == colorDistanceSq(pixel, cs[i])
         IN  IF minDistSq = -1 \/ d <= minDistSq
             THEN ClosestFromLast(pixel, cs, kk, i + 1, d, i)
             ELSE ClosestFromLast(pixel, cs, kk, i + 1, minDistSq, closest)

\* The inner loop of assignPixelsToCenters (lines 91-99): the first center at
\* minimum distance wins (strict <).  minDistSq = -1 stands for Infinity.
RECURSIVE ClosestFrom(_, _, _, _, _, _)
ClosestFrom(pixel, cs, kk, i, minDistSq, closest) ==
    IF i > kk THEN closest
    ELSE LET d == colorDistanceSq(pixel, cs[i])
         IN  IF minDistSq = -1 \/ d < minDistSq
             THEN ClosestFrom(pixel, cs, kk, i + 1, d, i)
             ELSE ClosestFrom(pixel, cs, kk, i + 1, minDistSq, closest)

Closest(pixel, cs, kk) == ClosestFrom(pixel, cs, kk, 1, -1, 1)

\* The outer loop of assignPixelsToCenters (lines 89-102)
RECURSIVE AssignLoop(_, _, _, _, _, _)
AssignLoop(pxs, cs, kk, p, asg, sizes) ==
    IF p > Len(pxs) THEN [assignments |-> asg, clusterSizes |-> sizes]
    ELSE LET closest == Closest(pxs[p], cs, kk)
         IN  AssignLoop(pxs, cs, kk, p + 1,
                        [asg EXCEPT ![p] = closest],
                        [sizes EXCEPT ![closest] = @ + 1])

\* A plausible slip: the loop stops one pixel short
assignPixelsToCentersShort(pxs, cs, kk) ==
    AssignLoop(SubSeq(pxs, 1, Len(pxs) - 1), cs, kk, 1,
               [p \in DOMAIN pxs |-> 1], [i \in 1..kk |-> 0])

\* assignPixelsToCenters: a zero-filled Int32Array (cluster index 0 is 1
\* here) and zero-filled sizes, then the loop
assignPixelsToCenters(pxs, cs, kk) ==
    AssignLoop(pxs, cs, kk, 1, [p \in DOMAIN pxs |-> 1], [i \in 1..kk |-> 0])

\* Math.round(sum / size) for sum >= 0, size > 0: halves round up
RoundDiv(sum, size) == (2 * sum + size) \div (2 * size)

\* A plausible slip: the sums are not kept per cluster
ChannelSumAll(pxs, asg, i, ch) ==
    SumSeq([p \in DOMAIN pxs |-> pxs[p][ch]])

\* sums[i][ch] after the accumulation loop of updateCenters (lines 114-121)
ChannelSum(pxs, asg, i, ch) ==
    SumSeq([p \in DOMAIN pxs |-> IF asg[p] = i THEN pxs[p][ch] ELSE 0])

\* A plausible slip: an empty cluster is re-seeded with the first pixel
updateCentersReseed(pxs, asg, sizes, oldCenters, kk) ==
    [i \in 1..kk |->
        IF sizes[i] > 0
        THEN <<RoundDiv(ChannelSum(pxs, asg, i, 1), sizes[i]),
               RoundDiv(ChannelSum(pxs, asg, i, 2), sizes[i]),
               RoundDiv(ChannelSum(pxs, asg, i, 3), sizes[i])>>
        ELSE pxs[1]]

\* A plausible slip: an empty cluster is reset instead of carried forward
updateCentersReset(pxs, asg, sizes, oldCenters, kk) ==
    [i \in 1..kk |->
        IF sizes[i] > 0
        THEN <<RoundDiv(ChannelSum(pxs, asg, i, 1), sizes[i]),
               RoundDiv(ChannelSum(pxs, asg, i, 2), sizes[i]),
               RoundDiv(ChannelSum(pxs, asg, i, 3), sizes[i])>>
        ELSE <<0, 0, 0>>]

updateCenters(pxs, asg, sizes, oldCenters, kk) ==
    [i \in 1..kk |->
        IF sizes[i] > 0
        THEN <<RoundDiv(ChannelSum(pxs, asg, i, 1), sizes[i]),
               RoundDiv(ChannelSum(pxs, asg, i, 2), sizes[i]),
               RoundDiv(ChannelSum(pxs, asg, i, 3), sizes[i])>>
        ELSE oldCenters[i]]

\* A plausible slip: some instead of every
ConvergedSome(oldCenters, newCenters) ==
    \E i \in DOMAIN oldCenters :
        colorDistanceSq(oldCenters[i], newCenters[i]) <= CONVERGE_THRESHOLD_SQ

\* A plausible slip: < instead of <=
ConvergedStrict(oldCenters, newCenters) ==
    \A i \in DOMAIN oldCenters :
        colorDistanceSq(oldCenters[i], newCenters[i]) < CONVERGE_THRESHOLD_SQ

\* const converged = centers.every(...) (lines 157-159)
Converged(oldCenters, newCenters) ==
    \A i \in DOMAIN oldCenters :
        colorDistanceSq(oldCenters[i], newCenters[i]) <= CONVERGE_THRESHOLD_SQ

\* percentage = (clusterSizes[i] / pixels.length) * 100, kept exact as the
\* fraction num / den
Percentage(size, n) == [num |-> size * 100, den |-> n]

PctLess(a, b) == a.num * b.den < b.num * a.den

\* Array.prototype.sort with (a, b) => b.percentage - a.percentage: a stable
\* sort, descending.  Insert x behind every element that is not smaller.
RECURSIVE InsertDescUnstable(_, _)
InsertDescUnstable(sorted, x) ==
    IF sorted = <<>> THEN <<x>>
    ELSE IF ~PctLess(x.percentage, Head(sorted).percentage)
         THEN <<x>> \o sorted
         ELSE <<Head(sorted)>> \o InsertDescUnstable(Tail(sorted), x)

RECURSIVE InsertDesc(_, _)
InsertDesc(sorted, x) ==
    IF sorted = <<>> THEN <<x>>
    ELSE IF PctLess(Head(sorted).percentage, x.percentage)
         THEN <<x>> \o sorted
         ELSE <<Head(sorted)>> \o InsertDesc(Tail(sorted), x)

RECURSIVE SortDesc(_, _)
SortDesc(done, rest) ==
    IF rest = <<>> THEN done
    ELSE SortDesc(InsertDesc(done, Head(rest)), Tail(rest))

RankedResult(cs, sizes, n) ==
    SortDesc(<<>>, [i \in DOMAIN cs |->
                      [color |-> cs[i], percentage |-> Percentage(sizes[i], n)]])

\* ------------------------------------------------------------------------
\* The clustering engine as a state machine
\* ------------------------------------------------------------------------
NoCalls == <<>>
NoCanvas == [width |-> 0, height |-> 0, content |-> 0]

Init ==
    /\ pixels \in PixelLists
    /\ colorCount \in ColorCounts
    /\ maxIterations \in IterationLimits
    /\ k = 0
    /\ centers = <<>>
    /\ assignments = <<>>
    /\ clusterSizes = <<>>
    /\ iteration = 0
    /\ trace = <<>>
    /\ result = <<>>
    /\ pc = "start"
    /\ calls = NoCalls
    /\ canvas = NoCanvas

\* kMeansClustering, empty input (line 139)
ReturnEmpty ==
    /\ pc = "start"
    /\ Len(pixels) = 0
    /\ pc' = "done"
    /\ result' = <<>>
    /\ UNCHANGED <<pixels, colorCount, maxIterations, k, centers, assignments,
                   clusterSizes, iteration, trace>>
    /\ UNCHANGED acqVars

\* kMeansClustering line 140 and the first center of kMeansPlusPlusInit
InitFirstCenter ==
    /\ pc = "start"
    /\ Len(pixels) > 0
    /\ k' = ClampK(colorCount, Len(pixels))
    /\ \E idx \in DOMAIN pixels : centers' = <<pixels[idx]>>
    /\ pc' = IF k' > 1 THEN "seed" ELSE "assign"
    /\ UNCHANGED <<pixels, colorCount, maxIterations, assignments,
                   clusterSizes, iteration, trace, result>>
    /\ UNCHANGED acqVars

\* one pass of the loop of kMeansPlusPlusInit (lines 74-77)
InitNextCenter ==
    /\ pc = "seed"
    /\ LET distances == minDistancesToCenters(pixels, centers)
       IN  \E idx \in WeightedPickIndices(distances) :
               centers' = Append(centers, pixels[idx])
    /\ pc' = IF Len(centers') < k THEN "seed" ELSE "assign"
    /\ UNCHANGED <<pixels, colorCount, maxIterations, k, assignments,
                   clusterSizes, iteration, trace, result>>
    /\ UNCHANGED acqVars

\* the Assignment step of one iteration (lines 147-148)
Assign ==
    /\ pc = "assign"
    /\ LET res == assignPixelsToCenters(pixels, centers, k)
       IN  /\ assignments' = res.assignments
           /\ clusterSizes' = res.clusterSizes
    /\ pc' = "update"
    /\ UNCHANGED <<pixels, colorCount, maxIterations, k, centers, iteration,
                   trace, result>>
    /\ UNCHANGED acqVars

\* A plausible slip: break before centers = newCenters, so that a converged
\* run returns the centers of the iteration before
UpdateBreakFirst ==
    /\ pc = "update"
    /\ LET newCenters == updateCenters(pixels, assignments, clusterSizes, centers, k)
           converged == Converged(centers, newCenters)
       IN  /\ trace' = Append(trace, [old |-> centers, new |-> newCenters])
           /\ IF converged
              THEN /\ centers' = centers
                   /\ iteration' = iteration
                   /\ pc' = "rank"
              ELSE /\ centers' = newCenters
                   /\ iteration' = iteration + 1
                   /\ pc' = IF iteration + 1 < maxIterations THEN "assign" ELSE "rank"
    /\ UNCHANGED <<pixels, colorCount, maxIterations, k, assignments,
                   clusterSizes, result>>
    /\ UNCHANGED acqVars

\* the Update step, the convergence test and the loop control (lines 149-162)
Update ==
    /\ pc = "update"
    /\ LET newCenters == updateCenters(pixels, assignments, clusterSizes, centers, k)
           converged == Converged(centers, newCenters)
       IN  /\ centers' = newCenters
           /\ trace' = Append(trace, [old |-> centers, new |-> newCenters])
           /\ IF converged
              THEN /\ iteration' = iteration
                   /\ pc' = "rank"
              ELSE /\ iteration' = iteration + 1
                   /\ pc' = IF iteration + 1 < maxIterations THEN "assign" ELSE "rank"
    /\ UNCHANGED <<pixels, colorCount, maxIterations, k, assignments,
                   clusterSizes, result>>
    /\ UNCHANGED acqVars

\* the map and sort of the final centers (lines 164-169)
Rank ==
    /\ pc = "rank"
    /\ result' = RankedResult(centers, clusterSizes, Len(pixels))
    /\ pc' = "done"
    /\ UNCHANGED <<pixels, colorCount, maxIterations, k, centers, assignments,
                   clusterSizes, iteration, trace>>
    /\ UNCHANGED acqVars

Next ==
    \/ ReturnEmpty
    \/ InitFirstCenter
    \/ InitNextCenter
    \/ Assign
    \/ Update
    \/ Rank

Spec == Init /\ [][Next]_vars

\* ------------------------------------------------------------------------
\* The acquisition layer: extractColorsFromFile and extractColorsFromUrl
\* running as concurrent calls on the singleton extractor
\* ------------------------------------------------------------------------
NumCalls == 2
Calls == 1..NumCalls

\* Error messages, by the line that builds them:
\*   wrapper "FileFailed"  is the prefix of line 302, "UrlFailed" of line 354,
\*   "none" an error that reaches the caller as it was thrown;
\*   cause "InvalidFile" (280), "InvalidUrl" (321), "LoadFailed" (234),
\*   "DownloadFailed" (263), "ExtractError" (an exception of extractColors).
NoError == [wrapper |-> "none", cause |-> "none"]

\* decoded images and the maxSize option they are extracted with
ImageInputs == {[width |-> 2, height |-> 2, maxSize |-> 2],
                [width |-> 4, height |-> 1, maxSize |-> 2]}

\* scale = Math.min(maxSize / width, maxSize / height, 1) as a fraction
Scale(img) ==
    LET a == [num |-> img.maxSize, den |-> img.width]
        b == [num |-> img.maxSize, den |-> img.height]
        ab == IF a.num * b.den <= b.num * a.den THEN a ELSE b
    IN  IF ab.num < ab.den THEN ab ELSE [num |-> 1, den |-> 1]

\* Math.floor(imageElement.width * scale), Math.floor(imageElement.height * scale)
TargetWidth(img) == (img.width * Scale(img).num) \div Scale(img).den
TargetHeight(img) == (img.height * Scale(img).num) \div Scale(img).den

\* ctx.getImageData(0, 0, width, height) throws IndexSizeError for a zero side
GetImageDataThrows(cv) == cv.width = 0 \/ cv.height = 0

\* the prefix the catch clause of each entry point puts before the cause
Wrapper(kind) == IF kind = "file" THEN "FileFailed" ELSE "UrlFailed"

\* A slip the other way: return await runExtract(img)
ExtractAwaitedAlways(kind) == TRUE

\* Is the promise of the extraction awaited inside the try block?  The file
\* entry awaits it (line 292); the URL entry returns it (lines 334 and 347).
ExtractAwaited(kind) == kind = "file"

\* A slip: a suspension point between drawImage and getImageData
SuspendedAnywhere(p) == TRUE

\* Is a call at position p suspended at an await (or not running at all)?
\* extractColors has no await: between the draw and the read no other call runs.
Suspended(p) == p # "drawn"

CallInits ==
    {[kind |-> kd, valid |-> v, image |-> im, pc |-> "idle", path |-> "none",
      direct |-> "none", download |-> "none", local |-> "none",
      nDirect |-> 0, nDownload |-> 0, nLocal |-> 0,
      urlsCreated |-> 0, urlsRevoked |-> 0,
      readFrom |-> 0, extractErr |-> FALSE, error |-> NoError] :
        kd \in {"file", "url"}, v \in BOOLEAN, im \in ImageInputs}

\* the canvas of the singleton: 300 x 150 when created, nothing drawn
NewCanvas == [width |-> 300, height |-> 150, content |-> 0]

InitAcq ==
    /\ pixels = <<>>
    /\ colorCount = DefaultColorCount
    /\ maxIterations = DefaultMaxIterations
    /\ k = 0
    /\ centers = <<>>
    /\ assignments = <<>>
    /\ clusterSizes = <<>>
    /\ iteration = 0
    /\ trace = <<>>
    /\ result = <<>>
    /\ pc = "off"
    /\ calls \in [Calls -> CallInits]
    /\ canvas = NewCanvas

\* the event loop runs a step of call c only when no other call is inside a
\* synchronous stretch
CanRun(c) == \A d \in Calls \ {c} : Suspended(calls[d].pc)

\* a rejection caught by the outer catch of the entry point (lines 300-303,
\* 352-355): the call settles with the wrapped message
RejectWrapped(call, cause) ==
    [call EXCEPT !.pc = "rejected",
                 !.error = [wrapper |-> Wrapper(call.kind), cause |-> cause]]

\* a rejection no catch clause of the entry point sees
RejectRaw(call, cause) ==
    [call EXCEPT !.pc = "rejected",
                 !.error = [wrapper |-> "none", cause |-> cause]]

\* the catch (corsError) block up to its first await (lines 335-340)
StartDownload(call) ==
    [call EXCEPT !.pc = "download", !.download = "pending",
                 !.nDownload = @ + 1]

\* URL.createObjectURL and loadImage of the object URL (284-288, 343-346)
StartLocalLoad(call) ==
    [call EXCEPT !.pc = "localLoad", !.local = "pending", !.path = "local",
                 !.urlsCreated = @ + 1, !.nLocal = @ + 1]

\* A plausible slip: the object URL is never released
RevokeNever(call) == call

\* the finally block (lines 296-299, 348-350)
Revoke(call) == [call EXCEPT !.urlsRevoked = @ + 1]

\* extractColorsFromFile up to its first await (lines 277-288)
FileStart(c) ==
    /\ calls[c].kind = "file"
    /\ calls[c].pc = "idle"
    /\ CanRun(c)
    /\ calls' = [calls EXCEPT ![c] =
           IF ~calls[c].valid
           THEN RejectWrapped(@, "InvalidFile")
           ELSE StartLocalLoad(@)]
    /\ UNCHANGED canvas
    /\ UNCHANGED kmVars

\* extractColorsFromUrl up to its first await (lines 316-333)
UrlStart(c) ==
    /\ calls[c].kind = "url"
    /\ calls[c].pc = "idle"
    /\ CanRun(c)
    /\ calls' = [calls EXCEPT ![c] =
           IF ~calls[c].valid
           THEN RejectWrapped(@, "InvalidUrl")
           ELSE [@ EXCEPT !.pc = "directLoad", !.direct = "pending",
                          !.path = "direct", !.nDirect = @ + 1]]
    /\ UNCHANGED canvas
    /\ UNCHANGED kmVars

\* img.onerror of the direct load: the inner catch starts the download
DirectLoadFail(c) ==
    /\ calls[c].pc = "directLoad"
    /\ CanRun(c)
    /\ calls' = [calls EXCEPT ![c] = StartDownload([@ EXCEPT !.direct = "failed"])]
    /\ UNCHANGED canvas
    /\ UNCHANGED kmVars

\* downloadImage rejects (network error, status not ok, not an image)
DownloadFail(c) ==
    /\ calls[c].pc = "download"
    /\ CanRun(c)
    /\ calls' = [calls EXCEPT ![c] =
           RejectWrapped([@ EXCEPT !.download = "failed"], "DownloadFailed")]
    /\ UNCHANGED canvas
    /\ UNCHANGED kmVars

\* downloadImage resolves: object URL and local load (lines 343-346)
DownloadOk(c) ==
    /\ calls[c].pc = "download"
    /\ CanRun(c)
    /\ calls' = [calls EXCEPT ![c] = StartLocalLoad([@ EXCEPT !.download = "ok"])]
    /\ UNCHANGED canvas
    /\ UNCHANGED kmVars

\* img.onerror of the load of the object URL: finally, then the outer catch
LocalLoadFail(c) ==
    /\ calls[c].pc = "localLoad"
    /\ CanRun(c)
    /\ calls' = [calls EXCEPT ![c] =
           RejectWrapped(Revoke([@ EXCEPT !.local = "failed"]), "LoadFailed")]
    /\ UNCHANGED canvas
    /\ UNCHANGED kmVars

\* img.onload: extractColors is entered; canvas size set and image drawn
\* (lines 177-192)
LoadOkDraw(c) ==
    /\ calls[c].pc \in {"directLoad", "localLoad"}
    /\ CanRun(c)
    /\ calls' = [calls EXCEPT ![c] =
           [@ EXCEPT !.pc = "drawn",
                     !.direct = IF calls[c].pc = "directLoad" THEN "ok" ELSE @,
                     !.local = IF calls[c].pc = "localLoad" THEN "ok" ELSE @]]
    /\ canvas' = [width |-> TargetWidth(calls[c].image),
                  height |-> TargetHeight(calls[c].image),
                  content |-> c]
    /\ UNCHANGED kmVars

\* the rest of extractColors (lines 195-221): read the canvas and cluster, or
\* throw; then the caller runs on to its await or, where the promise is
\* returned without await, through its finally block
ReadAndCluster(c) ==
    /\ calls[c].pc = "drawn"
    /\ CanRun(c)
    /\ LET threw == GetImageDataThrows(canvas)
           read == [calls[c] EXCEPT !.pc = "extracted",
                                    !.extractErr = threw,
                                    !.readFrom = IF threw THEN 0 ELSE canvas.content]
       IN  calls' = [calls EXCEPT ![c] =
               IF ~ExtractAwaited(read.kind) /\ read.path = "local"
               THEN Revoke(read)
               ELSE read]
    /\ UNCHANGED canvas
    /\ UNCHANGED kmVars

\* the promise of the extraction settles and the call with it
ExtractSettle(c) ==
    /\ calls[c].pc = "extracted"
    /\ CanRun(c)
    /\ LET call == calls[c]
           awaited == ExtractAwaited(call.kind)
           left == IF awaited /\ call.path = "local" THEN Revoke(call) ELSE call
       IN  calls' = [calls EXCEPT ![c] =
               IF ~call.extractErr THEN [left EXCEPT !.pc = "resolved"]
               ELSE IF ~awaited THEN RejectRaw(left, "ExtractError")
               ELSE IF call.path = "direct" THEN StartDownload(left)
               ELSE RejectWrapped(left, "ExtractError")]
    /\ UNCHANGED canvas
    /\ UNCHANGED kmVars

NextAcq ==
    \E c \in Calls :
        \/ FileStart(c)
        \/ UrlStart(c)
        \/ DirectLoadFail(c)
        \/ DownloadFail(c)
        \/ DownloadOk(c)
        \/ LocalLoadFail(c)
        \/ LoadOkDraw(c)
        \/ ReadAndCluster(c)
        \/ ExtractSettle(c)

SpecAcq == InitAcq /\ [][NextAcq]_vars

\* ------------------------------------------------------------------------
\* Properties of the clustering engine
\* ------------------------------------------------------------------------
Done == pc = "done"
NonEmpty == Len(pixels) > 0

\* an Assignment step has been executed in this run
Assigned == pc \in {"update", "rank", "done"} \/ trace # <<>>

\* C1: the engine returns exactly min(colorCount, pixelCount) records; for an
\* empty pixel list it returns the empty sequence and neither the initializer
\* nor any Assignment/Update iteration has run.
C1_ResultLength ==
    Done =>
        /\ Len(result) = Min2(colorCount, Len(pixels))
        /\ Len(pixels) = 0 =>
              /\ result = <<>>
              /\ centers = <<>>
              /\ assignments = <<>>
              /\ trace = <<>>
              /\ iteration = 0

\* colorCount larger than the number of pixels supplied: 6 requested, 3 given
C1_Witness ==
    /\ Done
    /\ Len(pixels) = 3
    /\ colorCount = DefaultColorCount
    /\ Len(result) = 3

\* the place the stable descending sort gives to cluster i
RankOf(i) ==
    1 + Cardinality({j \in 1..k :
            \/ clusterSizes[j] > clusterSizes[i]
            \/ (clusterSizes[j] = clusterSizes[i] /\ j < i)})

\* C2: the returned records are ordered by percentage, non-increasing, and
\* records of equal percentage keep their cluster-index order.
C2_SortedStable ==
    (Done /\ NonEmpty) =>
        /\ \A i, j \in DOMAIN result :
              i < j => ~PctLess(result[i].percentage, result[j].percentage)
        /\ \A i \in 1..k :
              result[RankOf(i)] =
                 [color |-> centers[i],
                  percentage |-> Percentage(clusterSizes[i], Len(pixels))]

\* the sort moved a cluster, and two clusters of equal size and different
\* colour kept their order
C2_Witness ==
    /\ Done
    /\ k = 3
    /\ clusterSizes[1] = clusterSizes[2]
    /\ clusterSizes[3] > clusterSizes[2]
    /\ centers[1] # centers[2]

\* C3: after every Assignment step each pixel index is assigned to exactly one
\* cluster index of the k clusters, the size counters count the pixels of each
\* cluster and sum to pixelCount, and the returned percentages sum to 100.
C3_Partition ==
    (Assigned /\ NonEmpty) =>
        /\ DOMAIN assignments = DOMAIN pixels
        /\ \A p \in DOMAIN pixels : assignments[p] \in 1..k
        /\ DOMAIN clusterSizes = 1..k
        /\ \A i \in 1..k :
              clusterSizes[i] = Cardinality({p \in DOMAIN pixels : assignments[p] = i})
        /\ SumSeq(clusterSizes) = Len(pixels)
        /\ Done =>
              SumSeq([i \in DOMAIN result |-> result[i].percentage.num])
                 = 100 * Len(pixels)

\* a second Assignment step has put pixels into more than one cluster
C3_Witness ==
    /\ pc = "update"
    /\ Len(trace) = 1
    /\ Len(pixels) = 3
    /\ \E i, j \in 1..k : i # j /\ clusterSizes[i] > 0 /\ clusterSizes[j] > 0

IsChannel(x) == x \in 0..255
IsColor(c) == DOMAIN c = 1..3 /\ \A ch \in 1..3 : IsChannel(c[ch])

\* C4: after initialization, after every Update step and in every returned
\* record, each channel of each of the k centers is an integer in 0..255.
C4_CentersInRange ==
    /\ \A i \in DOMAIN centers : IsColor(centers[i])
    /\ pc \in {"assign", "update", "rank", "done"} /\ NonEmpty => Len(centers) = k
    /\ \A i \in DOMAIN result : IsColor(result[i].color)
    /\ Done /\ NonEmpty => Len(result) = k

\* an Update step has produced a rounded mean that is no pixel's value
C4_Witness ==
    /\ pc = "assign"
    /\ trace # <<>>
    /\ \E i \in 1..k : \A p \in DOMAIN pixels : centers[i] # pixels[p]

ScenarioRun ==
    /\ pixels = ScenarioPixels
    /\ colorCount = 2
    /\ maxIterations = DefaultMaxIterations

\* C5: the run on [(0,0,0),(0,0,0),(255,255,255),(255,255,255)] with
\* colorCount = 2 and maxIterations = 20 ends, whatever the random draws, with
\* the two centers (0,0,0) and (255,255,255), each of cluster size 2 (50%).
C5_Scenario ==
    (ScenarioRun /\ Done) =>
        /\ Len(result) = 2
        /\ {centers[1], centers[2]} = {Black, White}
        /\ clusterSizes = <<2, 2>>
        /\ {result[1].color, result[2].color} = {Black, White}
        /\ \A i \in 1..2 : result[i].percentage.num = 50 * result[i].percentage.den

\* the draw of exactly 0 in the weighted pick chose the first pixel again
C5_Witness ==
    /\ ScenarioRun
    /\ Done
    /\ trace[1].old = <<Black, Black>>

SingleColor ==
    /\ Len(pixels) >= 6
    /\ \A p \in DOMAIN pixels : pixels[p] = pixels[1]

\* C6: at least 6 pixels of one value v and colorCount = 6 give 6 records of
\* colour v, the first at 100% and the other five at 0%.
C6_SingleColor ==
    (SingleColor /\ colorCount = 6 /\ Done) =>
        /\ Len(result) = 6
        /\ \A i \in 1..6 : result[i].color = pixels[1]
        /\ result[1].percentage.num = 100 * result[1].percentage.den
        /\ \A i \in 2..6 : result[i].percentage.num = 0

C6_Witness ==
    /\ SingleColor
    /\ pixels[1] = White
    /\ colorCount = 6
    /\ maxIterations = 1
    /\ Done
    /\ Len(result) = 6

\* every old/new center pair of iteration n is within the threshold
ConvergedAt(n) ==
    \A i \in 1..k :
        colorDistanceSq(trace[n].old[i], trace[n].new[i]) <= 25

\* C10: the number of iterations executed is the index of the first converged
\* iteration, or maxIterations when there is none: the loop never stops while
\* some center moved by more than the threshold and iterations are left, never
\* runs on after a converged iteration, executes at least 1 and at most
\* maxIterations iterations.
C10_IterationCount ==
    NonEmpty =>
        /\ Len(trace) <= maxIterations
        /\ \A n \in 1..(Len(trace) - 1) : ~ConvergedAt(n)
        /\ pc \in {"assign", "update"} =>
              /\ Len(trace) < maxIterations
              /\ \A n \in 1..Len(trace) : ~ConvergedAt(n)
        /\ pc \in {"rank", "done"} =>
              /\ Len(trace) >= 1
              /\ ConvergedAt(Len(trace)) \/ Len(trace) = maxIterations

\* a run that converged in its third iteration, below maxIterations
C10_Witness ==
    /\ Done
    /\ Len(trace) = 3
    /\ maxIterations = DefaultMaxIterations
    /\ ConvergedAt(3)

\* ------------------------------------------------------------------------
\* Properties of the acquisition layer (specification SpecAcq)
\* ------------------------------------------------------------------------
UrlCall(c) == calls[c].kind = "url" /\ calls[c].valid

\* C7: in extractColorsFromUrl with a well-formed URL the direct load comes
\* first; the download is attempted only after the direct load failed and at
\* most once; a successful download is followed by exactly one local load;
\* nothing is retried, and a failed download or local load ends the call with
\* an error.
C7_SingleFallback ==
    \A c \in DOMAIN calls :
        UrlCall(c) =>
            LET call == calls[c]
            IN  /\ call.nDirect <= 1 /\ call.nDownload <= 1 /\ call.nLocal <= 1
                /\ call.pc # "idle" => call.nDirect = 1
                /\ call.nDownload = 1 => call.direct = "failed"
                /\ call.nLocal = 1 <=> call.download = "ok"
                /\ call.download = "none" <=> call.nDownload = 0
                /\ (call.download = "failed" \/ call.local = "failed") =>
                      (call.pc = "rejected" /\ call.error # NoError)

\* a URL call that resolved through the download path
C7_Witness ==
    \E c \in DOMAIN calls :
        /\ UrlCall(c)
        /\ calls[c].pc = "resolved"
        /\ calls[c].direct = "failed"
        /\ calls[c].download = "ok"
        /\ calls[c].local = "ok"

\* C8: every failure of extractColorsFromFile reaches the caller wrapped as
\* "文件处理失败: <cause>" and every failure of extractColorsFromUrl as
\* "URL处理失败: <cause>", whichever stage failed.
C8_AllFailuresWrapped ==
    \A c \in DOMAIN calls :
        calls[c].pc = "rejected" => calls[c].error.wrapper = Wrapper(calls[c].kind)

\* C9: the canvas steps of one call are never interleaved with those of
\* another: between its draw and its read the canvas holds the call's own
\* image at the call's own size, and the pixels a call reads are its own.
C9_NoInterference ==
    \A c \in DOMAIN calls :
        LET call == calls[c]
        IN  /\ call.pc = "drawn" =>
                 /\ canvas.content = c
                 /\ canvas.width = TargetWidth(call.image)
                 /\ canvas.height = TargetHeight(call.image)
                 /\ \A d \in DOMAIN calls : calls[d].pc = "drawn" => d = c
            /\ call.readFrom \in {0, c}
            /\ (call.pc \in {"extracted", "resolved"} /\ ~call.extractErr) =>
                  call.readFrom = c

\* two calls in flight: one waits for its extraction to settle with pixels of
\* its own image read, while the other has drawn on the shared canvas
C9_Witness ==
    /\ DOMAIN calls = Calls
    /\ calls[1].pc = "extracted"
    /\ calls[1].readFrom = 1
    /\ calls[2].pc = "drawn"
    /\ canvas.content = 2

\* ------------------------------------------------------------------------
\* Further properties of the clustering engine (specification Spec)
\* ------------------------------------------------------------------------

\* C11: in every Update step a cluster whose size is 0 keeps exactly the
\* center it had before the step, the number of centers stays k, and the
\* old/new squared distance of such a cluster is 0 in the convergence test.
C11_EmptyKeepsCenter ==
    [][pc = "update" =>
          /\ Len(centers') = k
          /\ Len(centers) = k
          /\ \A i \in 1..k :
                clusterSizes[i] = 0 =>
                    /\ centers'[i] = centers[i]
                    /\ colorDistanceSq(trace'[Len(trace')].old[i],
                                       trace'[Len(trace')].new[i]) = 0]_vars

\* an Update step has left the center of an empty cluster in place while
\* another center moved
C11_Witness ==
    /\ pc \in {"assign", "rank"}
    /\ trace # <<>>
    /\ \E i, j \in 1..k :
          /\ clusterSizes[i] = 0
          /\ centers[i] = trace[Len(trace)].old[i]
          /\ trace[Len(trace)].old[j] # trace[Len(trace)].new[j]

\* the initial centers are still in place: no Update step has run
Seeding == pc \in {"seed", "assign"} /\ trace = <<>>

\* the weight pixel value v had when center j was picked: its squared
\* distance to the nearest of the centers chosen before
WeightAt(v, j) ==
    MinOf([i \in 1..(j - 1) |-> colorDistanceSq(v, centers[i])])

\* C12: in the weighted pick of each center after the first, when the total
\* weight is > 0 the chosen pixel has strictly positive weight, for every
\* value of the random draw, 0 included.
C12_PositiveWeightPicked ==
    Seeding =>
        \A j \in 2..Len(centers) :
            (\E p \in DOMAIN pixels : WeightAt(pixels[p], j) > 0) =>
                WeightAt(centers[j], j) > 0

\* the centers an Assignment step has just used are those still in centers
JustAssigned == pc = "update"

\* C13: the Assignment step gives each pixel a center of minimum squared RGB
\* distance, and among several centers at that minimum the lowest index.
C13_NearestLowestIndex ==
    JustAssigned =>
        \A p \in DOMAIN pixels :
            \A i \in 1..k :
                LET a == assignments[p]
                    da == colorDistanceSq(pixels[p], centers[a])
                    di == colorDistanceSq(pixels[p], centers[i])
                IN  /\ a \in 1..k
                    /\ da <= di
                    /\ da = di => a <= i

\* a pixel with two different centers at its minimum distance, and another
\* pixel assigned to a later cluster
C13_Witness ==
    /\ JustAssigned
    /\ \E p \in DOMAIN pixels : \E i, j \in 1..k :
          /\ i < j
          /\ assignments[p] = i
          /\ colorDistanceSq(pixels[p], centers[i]) = colorDistanceSq(pixels[p], centers[j])
    /\ \E q \in DOMAIN pixels : assignments[q] > 1

\* the pixels the last Assignment step put in cluster i
Members(i) == {p \in DOMAIN pixels : assignments[p] = i}

RECURSIVE SumOver(_, _)
SumOver(S, ch) ==
    IF S = {} THEN 0
    ELSE LET p == CHOOSE q \in S : TRUE
         IN  pixels[p][ch] + SumOver(S \ {p}, ch)

\* m is the mean of channel ch over the members of cluster i, rounded to the
\* nearest integer, halves up: m - 1/2 <= sum / n < m + 1/2
IsRoundedMean(m, i, ch) ==
    LET n == Cardinality(Members(i))
        sum == SumOver(Members(i), ch)
    IN  /\ m \in 0..255
        /\ 2 * n * m <= 2 * sum + n
        /\ 2 * sum + n < 2 * n * (m + 1)

\* C16: whether the loop ends converged or exhausted, the returned centers
\* and sizes come from the same last Assignment step: the reported size of a
\* cluster is the number of pixels that step put in it, and the center of a
\* cluster of size > 0 is the per-channel rounded mean of exactly those pixels.
C16_SameAssignment ==
    (pc \in {"rank", "done"} /\ NonEmpty) =>
        \A i \in 1..k :
            /\ clusterSizes[i] = Cardinality(Members(i))
            /\ clusterSizes[i] > 0 =>
                  \A ch \in 1..3 : IsRoundedMean(centers[i][ch], i, ch)
            /\ Done =>
                  result[RankOf(i)] =
                     [color |-> centers[i],
                      percentage |-> Percentage(Cardinality(Members(i)), Len(pixels))]

\* an exhausted run: the last iteration still moved a center, and a returned
\* center is a mean that is no pixel's value
C16_Witness ==
    /\ Done
    /\ Len(trace) = maxIterations
    /\ ~ConvergedAt(Len(trace))
    /\ \E i \in 1..k :
          /\ clusterSizes[i] > 1
          /\ \A p \in DOMAIN pixels : centers[i] # pixels[p]

\* ------------------------------------------------------------------------
\* Further properties of the acquisition layer (specification SpecAcq)
\* ------------------------------------------------------------------------

\* C14: for every image with width >= 1 and height >= 1 and every
\* maxSize >= 1 the target dimensions satisfy
\* 1 <= targetWidth <= min(width, maxSize) and
\* 1 <= targetHeight <= min(height, maxSize): the image is never upscaled,
\* the canvas never gets a zero dimension and the sampler raises no error.
C14_TargetDimensions ==
    \A c \in DOMAIN calls :
        LET call == calls[c]
        IN  /\ call.pc = "drawn" =>
                 /\ 1 <= canvas.width
                 /\ canvas.width <= Min2(call.image.width, call.image.maxSize)
                 /\ 1 <= canvas.height
                 /\ canvas.height <= Min2(call.image.height, call.image.maxSize)
                 /\ ~GetImageDataThrows(canvas)
            /\ ~call.extractErr

Settled(call) == call.pc \in {"resolved", "rejected"}

\* C15: every object URL created by a call is revoked exactly once before the
\* call settles, on every path, and never before the image loaded from it has
\* been drawn and read by the extraction; when input validation fails, no
\* object URL is created and no load is started.
C15_ObjectUrlLifetime ==
    \A c \in DOMAIN calls :
        LET call == calls[c]
        IN  /\ call.urlsCreated <= 1
            /\ call.urlsRevoked <= call.urlsCreated
            /\ call.urlsCreated = call.nLocal
            /\ Settled(call) => call.urlsRevoked = call.urlsCreated
            /\ call.pc \in {"localLoad", "drawn"} => call.urlsRevoked = 0
            /\ call.urlsRevoked = 1 =>
                  \/ call.local = "failed"
                  \/ /\ call.local = "ok"
                     /\ call.pc \in {"extracted", "resolved", "rejected"}
                     /\ call.extractErr \/ call.readFrom = c
            /\ ~call.valid =>
                  /\ call.urlsCreated = 0
                  /\ call.nDirect = 0 /\ call.nDownload = 0 /\ call.nLocal = 0

\* a URL call on the download path has read its image and released the
\* object URL, and its promise has not settled yet
C15_Witness ==
    \E c \in DOMAIN calls :
        /\ UrlCall(c)
        /\ calls[c].pc = "extracted"
        /\ calls[c].path = "local"
        /\ calls[c].readFrom = c
        /\ calls[c].urlsCreated = 1
        /\ calls[c].urlsRevoked = 1

====
